---------------------------- MODULE Spec2Model ----------------------------
(***************************************************************************)
(* KnowledgeHub live-session signaling.                                    *)
(*                                                                         *)
(* The socket.io signaling server of backend/index.js (src/unnamed/        *)
(* part_000, lines 74-124) and the signaling side of the LiveVideoChat     *)
(* component (src/unnamed/part_007).                                       *)
(*                                                                         *)
(* socket.io conventions the handlers rely on:                             *)
(*   - every socket is, from connection on, the only automatic member of   *)
(*     the room named by its own id (its private channel);                 *)
(*   - socket.join(r) adds the socket to room r, rooms are insertion       *)
(*     ordered sets;                                                       *)
(*   - io.to(r).emit reaches every member of room r, socket.to(r).emit     *)
(*     every member of r except the emitting socket, socket.emit the       *)
(*     socket alone;                                                       *)
(*   - "disconnecting" runs while the socket is still in its rooms, after  *)
(*     it the socket leaves all of them.                                   *)
(***************************************************************************)
EXTENDS Naturals, Sequences, FiniteSets, Bags, TLC

(* ------------------------------ bounds --------------------------------- *)

\* longest chat text
MaxMsgLen == 1
\* (socket, room) memberships that exist at one time through join-room with
\* a room name
MaxMemberships == 4
\* ... and through join-room with any id, where relays are followed
MaxAnyMemberships == 3
\* offer / answer / ice-candidate events of arbitrary clients in one run
MaxRelays == 1
\* async handlers one component has suspended at a time
MaxTasks == 2
\* getUserMedia calls that fail in one run
MaxMediaFailures == 1
\* ICE candidates one RTCPeerConnection gathers
MaxCandidates == 1
\* failed getUserMedia calls of a session of camera and microphone toggles
MaxAcquisitionFailures == 2
\* recordings one component starts in one run
MaxCycles == 2
\* chunks one MediaRecorder delivers before it is stopped
MaxChunks == 1
\* seconds the recording timer counts during one recording
MaxSeconds == 1

\* socket ids, in the order the server hands them out (one per connection)
HandleNames == <<"h1", "h2", "h3">>
Handles == {HandleNames[i] : i \in 1..Len(HandleNames)}

\* room names clients pass as roomId
RoomNames == {"r1", "r2"}

\* The ids socket.io keeps a room under: the room names and, for the private
\* channel of each socket, the socket ids.
RoomIds == RoomNames \cup Handles

\* The empty / missing string (falsy in JavaScript).
Empty == ""

UserNames == {"Alice", "Bob"}

\* Chat text is a sequence of characters, " " is whitespace.
Chars == {" ", "a"}

RECURSIVE SeqsUpTo(_, _)
SeqsUpTo(S, n) ==
  IF n = 0 THEN {<<>>}
  ELSE LET shorter == SeqsUpTo(S, n - 1)
       IN shorter \cup {Append(s, x) : s \in {t \in shorter : Len(t) = n - 1}, x \in S}

Texts == SeqsUpTo(Chars, MaxMsgLen)

\* An sdp / candidate payload: absent (<<>>, falsy) or present.
Payloads == {<<>>, <<"a">>}

(* ------------------------------ helpers -------------------------------- *)

SetOf(s) == {s[i] : i \in 1..Len(s)}

Without(s, x) == SelectSeq(s, LAMBDA y : y # x)

Count(s, e) == Len(SelectSeq(s, LAMBDA y : y = e))

NoDup(s) == \A i, j \in 1..Len(s) : i # j => s[i] # s[j]

\* String.prototype.trim on a sequence of characters.
RECURSIVE TrimStart(_)
TrimStart(s) ==
  IF s # <<>> /\ Head(s) = " " THEN TrimStart(Tail(s)) ELSE s

RECURSIVE TrimEnd(_)
TrimEnd(s) ==
  IF s # <<>> /\ s[Len(s)] = " " THEN TrimEnd(SubSeq(s, 1, Len(s) - 1)) ELSE s

Trim(s) == TrimEnd(TrimStart(s))

(* ------------------------------ events --------------------------------- *)

\* One server-to-client event.  id: socketId / from; name: userName / sender;
\* participants: the existing-participants list; payload: sdp, candidate or
\* chat text.
Event(type, id, name, participants, payload) ==
  [type |-> type, id |-> id, name |-> name,
   participants |-> participants, payload |-> payload]

ExistingParticipants(list) == Event("existing-participants", Empty, Empty, list, <<>>)
UserJoined(h, userName) == Event("user-joined", h, userName, <<>>, <<>>)
UserLeft(h) == Event("user-left", h, Empty, <<>>, <<>>)
Relayed(type, from, payload) == Event(type, from, Empty, <<>>, payload)
ChatMessage(sender, text) == Event("chat-message", Empty, sender, <<>>, text)

RelayTypes == {"offer", "answer", "ice-candidate"}

VARIABLES
  connected,   \* socket ids of the live server-side sockets
  used,        \* socket ids handed out so far (an id is never reused)
  rooms,       \* io.sockets.adapter.rooms: room id -> members, in join order
  joined,      \* room id -> live sockets that issued join-room for it
  lastOp,      \* the event the server handled last
  lastEmit,    \* socket id -> the events that handler delivered to it
  relays,      \* relay events of arbitrary clients handled so far
  cl,          \* client -> the state of its LiveVideoChat component
  inbox,       \* socket id -> events on their way from the server to it
  outbox,      \* client -> events its socket has emitted, not yet handled
  told,        \* socket id -> the ids the server has announced to it
  mediaFailures \* getUserMedia calls that have failed so far

serverVars == <<connected, used, rooms, joined, lastOp, lastEmit>>

clientVars == <<cl, inbox, outbox, told, mediaFailures>>

vars == <<connected, used, rooms, joined, lastOp, lastEmit, relays,
          cl, inbox, outbox, told, mediaFailures>>

NoEmit == [h \in Handles |-> <<>>]

Op(op, h, arg, name, payload) ==
  [op |-> op, h |-> h, arg |-> arg, name |-> name, payload |-> payload]

(* --------------------------- client components ------------------------- *)

Clients == {"A", "B", "C"}

\* the two parties of a session
TwoParty == {"A", "B"}

\* derivedRoomId and activeUserName of each mounted component
ClientRoom(c) == "r1"
ClientName(c) == CASE c = "A" -> "Alice" [] c = "B" -> "Bob" [] OTHER -> "Carol"

\* One suspended async handler: the await it waits at (pc), its targetId /
\* fromId, and the RTCPeerConnection its local variable peer holds: "none"
\* yet, the "open" one of peerRef, or one that has been "closed" since.
\* video / audio: the arguments of the startMedia call it waits in.
Task(kind, pc, target, peer) ==
  [kind |-> kind, pc |-> pc, target |-> target, peer |-> peer,
   video |-> TRUE, audio |-> TRUE]

\* The refs of a component.  peerRef / remoteSocketIdRef / localStreamRef as
\* in the source; sig and remoteDesc are signalingState and "a remote
\* description is set" of the connection in peerRef, localDesc the kind of
\* its local description and gathered the ICE candidates it has produced.
\* videoTrack / audioTrack: the track of that kind in localStreamRef ("none",
\* "enabled" or "disabled").  remoteStream: remoteStreamRef is set;
\* remoteLive: its tracks are live.  recorder: mediaRecorderRef is set.
\* isConnected, isRecording, isVideoOn, isAudioOn, isScreenSharing and
\* cameraError (set or null) are the React state of the same names.  A
\* component starts with no stream, no recorder and every flag off.
\* sender: the track the video sender of the connection carries ("none" when
\* the connection has no video sender, else "camera" or "screen");
\* audioSender: the connection has an audio sender.
\* screenTrack: the display track in screenTrackRef: "none", "live" (no
\* onended handler yet), "watched" (onended set) or "ended" (the browser ended
\* it when no handler was set).  screenLeak: a display track is live that no
\* ref holds.
\* userName: the currentUserName prop; chatMessages: the chat log (sender and
\* text of each entry).
\* The recorder: recording is the number of MediaRecorder objects that record,
\* timers the number of running recording timers, duration recordingDuration
\* (and recordingDurationRef), chunks recordingChunksRef (each chunk named by
\* the recording that delivered it), cycle the number of recordings started.
\* made and secs: chunks delivered and seconds counted by the recording in
\* progress.  stopping: the recorders whose stop event has not been handled
\* yet, oldest first.  artifacts: what onRecordingReady was called with.
Component(mounted, sock, localStream, peerRef, sig, remoteDesc, remoteSocketId, tasks) ==
  [mounted |-> mounted, sock |-> sock, localStream |-> localStream,
   peerRef |-> peerRef, sig |-> sig,
   remoteDesc |-> remoteDesc, remoteSocketId |-> remoteSocketId,
   tasks |-> tasks,
   localDesc |-> "none", gathered |-> 0,
   videoTrack |-> "none", audioTrack |-> "none",
   remoteStream |-> FALSE, remoteLive |-> FALSE,
   recorder |-> FALSE, isRecording |-> FALSE,
   recording |-> 0, timers |-> 0, duration |-> 0, chunks |-> <<>>,
   cycle |-> 0, made |-> 0, secs |-> 0, stopping |-> <<>>, artifacts |-> <<>>,
   sender |-> "none", audioSender |-> FALSE,
   screenTrack |-> "none", isScreenSharing |-> FALSE, screenLeak |-> FALSE,
   userName |-> Empty, chatMessages |-> <<>>,
   isConnected |-> FALSE, isVideoOn |-> FALSE, isAudioOn |-> FALSE,
   cameraError |-> FALSE]

Unmounted ==
  Component(FALSE, Empty, FALSE, FALSE, "stable", FALSE, Empty, EmptyBag)

(* ------------------------- socket.io primitives ------------------------ *)

\* a join that moves the socket: it leaves the rooms it joined before.
SocketJoinExclusive(rms, roomId, h) ==
  [r \in RoomIds |->
     IF r = roomId THEN (IF h \in SetOf(rms[r]) THEN rms[r] ELSE Append(rms[r], h))
     ELSE IF r = h THEN rms[r]
     ELSE SelectSeq(rms[r], LAMBDA y : y # h)]

\* socket.join(roomId): rooms are sets, a second join changes nothing.
SocketJoin(rms, roomId, h) ==
  IF h \in SetOf(rms[roomId]) THEN rms
  ELSE [rms EXCEPT ![roomId] = Append(@, h)]

\* io.to(roomId).emit(ev): every member of the room.
IoTo(rms, roomId, ev) ==
  [m \in Handles |->
     IF roomId \in RoomIds /\ m \in SetOf(rms[roomId]) THEN <<ev>> ELSE <<>>]

\* io.to in the place of socket.to: the emitting socket is not left out.
SocketToAll(rms, h, roomId, ev) ==
  [m \in Handles |->
     IF roomId \in RoomIds /\ m \in SetOf(rms[roomId]) THEN <<ev>> ELSE <<>>]

\* socket.to(roomId).emit(ev): every member of the room but the socket.
SocketTo(rms, h, roomId, ev) ==
  [m \in Handles |->
     IF roomId \in RoomIds /\ m \in SetOf(rms[roomId]) /\ m # h
     THEN <<ev>> ELSE <<>>]

\* socket.emit(ev)
SocketEmit(h, ev) == [m \in Handles |-> IF m = h THEN <<ev>> ELSE <<>>]

Both(e1, e2) == [m \in Handles |-> e1[m] \o e2[m]]

(* --------------------------- server handlers --------------------------- *)
(* Each handler is the change it makes to the registry (an action) and the *)
(* events it emits (an operator of the registry it runs in).               *)

registry == <<connected, used, rooms, joined>>

InitServer ==
  /\ connected = {}
  /\ used = {}
  /\ rooms = [r \in RoomIds |-> <<>>]
  /\ joined = [r \in RoomIds |-> {}]

\* socket ids are opaque and fresh: the server hands them out in a fixed order
NextId == HandleNames[Cardinality(used) + 1]

\* io.on("connection"): a new socket with a fresh id, alone in its own room.
Connection(h) ==
  /\ Cardinality(used) < Len(HandleNames)
  /\ h = NextId
  /\ connected' = connected \cup {h}
  /\ used' = used \cup {h}
  /\ rooms' = SocketJoin(rooms, h, h)
  /\ UNCHANGED joined

\* socket.on("join-room"): nothing without a roomId, else socket.join
JoinRoom(h, roomId, userName) ==
  /\ h \in connected
  /\ IF roomId = Empty
     THEN UNCHANGED <<rooms, joined>>
     ELSE /\ rooms' = SocketJoin(rooms, roomId, h)
          /\ joined' = [joined EXCEPT ![roomId] = @ \cup {h}]
  /\ UNCHANGED <<connected, used>>

\* ... then existing-participants to the socket, user-joined to the others
JoinRoomEmit(h, roomId, userName) ==
  IF roomId = Empty THEN NoEmit
  ELSE LET rms == SocketJoin(rooms, roomId, h)
           otherParticipants == Without(rms[roomId], h)
       IN Both(SocketEmit(h, ExistingParticipants(otherParticipants)),
               SocketTo(rms, h, roomId, UserJoined(h, userName)))

\* socket.on("offer" | "answer" | "ice-candidate")
Relay(type, h, targetId, payload) ==
  /\ h \in connected
  /\ UNCHANGED registry

RelayEmit(type, h, targetId, payload) ==
  IF targetId # Empty /\ payload # <<>>
  THEN IoTo(rooms, targetId, Relayed(type, h, payload))
  ELSE NoEmit

\* message is truthy (the trim left out)
HasTextUntrimmed(hasMessage, message) == hasMessage /\ message # <<>>

\* message?.trim() is truthy
HasText(hasMessage, message) == hasMessage /\ Trim(message) # <<>>

\* socket.on("chat-message"); hasMessage is FALSE when the field is missing.
Chat(h, roomId, sender, hasMessage, message) ==
  /\ h \in connected
  /\ UNCHANGED registry

ChatEmit(h, roomId, sender, hasMessage, message) ==
  IF roomId # Empty /\ HasText(hasMessage, message)
  THEN IoTo(rooms, roomId,
            ChatMessage(IF sender = Empty THEN "Participant" ELSE sender,
                        Trim(message)))
  ELSE NoEmit

\* the rooms a socket is in
RoomsOf(rms, h) == {r \in RoomIds : h \in SetOf(rms[r])}

\* socket.on("disconnecting"): one user-left per room of the socket that is
\* not its own ...
DisconnectingEmit(h) ==
  [m \in Handles |->
     LET shared == {r \in RoomsOf(rooms, h) : r # h /\ m \in SetOf(rooms[r]) /\ m # h}
     IN [i \in 1..Cardinality(shared) |-> UserLeft(h)]]

\* ... afterwards socket.io takes the socket out of every room.
Disconnecting(h) ==
  /\ h \in connected
  /\ rooms' = [r \in RoomIds |-> Without(rooms[r], h)]
  /\ joined' = [r \in RoomIds |-> joined[r] \ {h}]
  /\ connected' = connected \ {h}
  /\ UNCHANGED used

(* ------------------- the server under arbitrary clients ----------------- *)

\* no LiveVideoChat component is mounted: the sockets are driven by hand
InitArbitrary ==
  /\ InitServer
  /\ lastOp = Op("init", Empty, Empty, Empty, <<>>)
  /\ lastEmit = NoEmit
  /\ relays = 0
  /\ cl = [c \in Clients |-> Unmounted]
  /\ inbox = [h \in Handles |-> <<>>]
  /\ outbox = [c \in Clients |-> <<>>]
  /\ told = [h \in Handles |-> {}]
  /\ mediaFailures = 0

ConnectionEvent ==
  \E h \in Handles :
    /\ Connection(h)
    /\ lastOp' = Op("connection", h, Empty, Empty, <<>>)
    /\ lastEmit' = NoEmit
    /\ UNCHANGED <<relays, clientVars>>

Memberships == Cardinality({p \in RoomIds \X Handles : p[2] \in joined[p[1]]})

WithinMemberships(h, roomId, most) ==
  (roomId # Empty /\ h \notin joined[roomId]) => Memberships < most

JoinRoomObserved(h, roomId, userName, most) ==
  /\ WithinMemberships(h, roomId, most)
  /\ JoinRoom(h, roomId, userName)
  /\ lastOp' = Op("join-room", h, roomId, userName, <<>>)
  /\ lastEmit' = JoinRoomEmit(h, roomId, userName)
  /\ UNCHANGED <<relays, clientVars>>

\* join-room with any string a client can send: a room name, a socket id it
\* has learnt, or nothing
JoinRoomEvent ==
  \E h \in Handles, roomId \in RoomNames \cup used \cup {Empty}, userName \in UserNames :
    JoinRoomObserved(h, roomId, userName, MaxAnyMemberships)

\* join-room with a room name or nothing
JoinNamedRoomEvent ==
  \E h \in Handles, roomId \in RoomNames \cup {Empty}, userName \in UserNames :
    JoinRoomObserved(h, roomId, userName, MaxMemberships)

RelayEvent ==
  \E type \in RelayTypes, h \in Handles, targetId \in RoomIds \cup {Empty},
     payload \in Payloads :
    /\ relays < MaxRelays
    /\ relays' = relays + 1
    /\ Relay(type, h, targetId, payload)
    /\ lastOp' = Op(type, h, targetId, Empty, payload)
    /\ lastEmit' = RelayEmit(type, h, targetId, payload)
    /\ UNCHANGED clientVars

ChatEvent ==
  \E h \in Handles, roomId \in RoomNames \cup {Empty}, sender \in UserNames \cup {Empty},
     hasMessage \in BOOLEAN, message \in Texts :
    /\ (~hasMessage => message = <<>>)
    /\ Chat(h, roomId, sender, hasMessage, message)
    /\ lastOp' = Op("chat-message", h, roomId, sender,
                    IF hasMessage THEN message ELSE <<>>)
    /\ lastEmit' = ChatEmit(h, roomId, sender, hasMessage, message)
    /\ UNCHANGED <<relays, clientVars>>

DisconnectingEvent ==
  \E h \in Handles :
    /\ Disconnecting(h)
    /\ lastOp' = Op("disconnecting", h, Empty, Empty, <<>>)
    /\ lastEmit' = DisconnectingEmit(h)
    /\ UNCHANGED <<relays, clientVars>>

\* the room registry alone: connections, joins and disconnects
NextRooms ==
  \/ ConnectionEvent
  \/ JoinNamedRoomEvent
  \/ DisconnectingEvent

SpecRooms == InitArbitrary /\ [][NextRooms]_vars

\* the registry and the relay of offer, answer and ice-candidate
NextRelay ==
  \/ ConnectionEvent
  \/ JoinRoomEvent
  \/ DisconnectingEvent
  \/ RelayEvent

SpecRelay == InitArbitrary /\ [][NextRelay]_vars

\* the registry and the chat broadcast
NextChat ==
  \/ ConnectionEvent
  \/ JoinNamedRoomEvent
  \/ DisconnectingEvent
  \/ ChatEvent

SpecChat == InitArbitrary /\ [][NextChat]_vars

(* --------------------- the LiveVideoChat component --------------------- *)

\* One event a client socket emits.
Msg(type, arg, name, payload) ==
  [type |-> type, arg |-> arg, name |-> name, payload |-> payload]

\* What a handler leaves behind: the component and the events it emitted.
Result(s, out) == [s |-> s, out |-> out]

Spawn(s, t) == [s EXCEPT !.tasks = @ (+) SetToBag({t})]

Finish(s, t) == [s EXCEPT !.tasks = @ (-) SetToBag({t})]

\* the RTCPeerConnection task t holds is still open
Holds(s, t) == s.peerRef /\ t.peer = "open"

\* peer.close(): the handlers that hold the connection now hold a closed one
Closed(t) == IF t.peer = "open" THEN [t EXCEPT !.peer = "closed"] ELSE t

CloseHeld(tasks) ==
  [u \in {Closed(t) : t \in BagToSet(tasks)} |->
     CopiesIn(u, tasks)
       + (IF u.peer = "closed" THEN CopiesIn([u EXCEPT !.peer = "open"], tasks) ELSE 0)]

\* stopRecording: stop the recorder and every track of its stream.  The
\* stream buildRecordingStream made holds the tracks of the remote stream
\* themselves (and clones of the local audio tracks).
StopRecording(s) ==
  IF ~s.recorder THEN s
  ELSE [s EXCEPT !.recorder = FALSE, !.isRecording = FALSE, !.remoteLive = FALSE,
                 !.recording = @ - 1,
                 !.timers = IF @ > 0 THEN @ - 1 ELSE @,
                 !.stopping = Append(@, [cycle |-> s.cycle, made |-> s.made + 1,
                                         secs |-> s.secs]),
                 !.made = 0, !.secs = 0]

\* cleanupPeerConnection: stop a recording, close the connection, forget the
\* remote side
CleanupPeerConnection(s) ==
  [StopRecording(s) EXCEPT
     !.peerRef = FALSE, !.sig = "stable", !.remoteDesc = FALSE,
     !.localDesc = "none", !.gathered = 0,
     !.remoteSocketId = Empty, !.tasks = CloseHeld(@),
     !.sender = "none", !.audioSender = FALSE,
     !.isConnected = FALSE, !.remoteStream = FALSE, !.remoteLive = FALSE]

\* the connection in peerRef has a sender
HasSenders(s) == s.sender # "none" \/ s.audioSender

\* syncTracksWithPeer(localStreamRef.current): nothing without a connection
\* in peerRef; else each track of the stream replaces the track of the sender
\* of its kind, or is added
SyncTracksWithPeer(s) ==
  IF ~s.peerRef THEN s
  ELSE [s EXCEPT !.sender = IF s.videoTrack # "none" THEN "camera" ELSE @,
                 !.audioSender = IF s.audioTrack # "none" THEN TRUE ELSE @]

\* createPeerConnection: the current connection, or a new one.  The new
\* connection is stored in peerRef after syncTracksWithPeer has run, so it
\* starts without senders.
CreatePeerConnection(s) ==
  IF s.peerRef THEN s
  ELSE [SyncTracksWithPeer(s) EXCEPT
          !.peerRef = TRUE, !.sig = "stable", !.remoteDesc = FALSE,
          !.localDesc = "none", !.gathered = 0,
          !.sender = "none", !.audioSender = FALSE]

\* the tracks of one kind of the held stream get enabled = on
SetTrackEnabled(track, on) ==
  IF track = "none" THEN track ELSE IF on THEN "enabled" ELSE "disabled"

\* the video sender transmits: its connection has completed an exchange
Sending(s) ==
  s.sender # "none" /\ s.sig = "stable" /\ s.remoteDesc /\ s.localDesc # "none"

\* an operation of the connection in peerRef is under way
ChainBusy(s) == \E t \in BagToSet(s.tasks) : t.peer = "open"

\* sender.replaceTrack settles in a later task: the sender transmits, or the
\* call is queued behind an operation of the connection (else the track is
\* set at once and the caller is not interrupted)
ReplaceTrackWaits(s) == Sending(s) \/ ChainBusy(s)

\* stopScreenShare from setIsScreenSharing(false), and what its caller does
\* after "await stopScreenShare()": toggleVideo turns the camera off
AfterStopScreenShare(s, kind) ==
  LET s1 == [s EXCEPT !.isScreenSharing = FALSE]
  IN IF kind = "toggleVideo"
     THEN [s1 EXCEPT !.videoTrack = SetTrackEnabled(@, FALSE), !.isVideoOn = FALSE]
     ELSE s1

\* stopScreenShare called by kind (toggleVideo, handleEndCall, "onended", or
\* "stopScreenShare" for toggleScreenShare; the last two do nothing after
\* it): the display track is stopped and forgotten, and with a video sender
\* and a camera track the handler awaits replaceTrack
StopScreenShare(s, kind) ==
  LET s1 == [s EXCEPT !.screenTrack = "none"]
  IN IF s.sender # "none" /\ s.videoTrack # "none"
     THEN IF ReplaceTrackWaits(s)
          THEN Spawn(s1, Task(kind, "replaceTrack", Empty, "open"))
          ELSE AfterStopScreenShare([s1 EXCEPT !.sender = "camera"], kind)
     ELSE AfterStopScreenShare(s1, kind)

\* startScreenShare after replaceTrack: onended is set on the track that
\* getDisplayMedia gave and isScreenSharing turns on
StartScreenShareShown(s) ==
  [s EXCEPT !.screenTrack = IF @ = "live" THEN "watched" ELSE @,
            !.isScreenSharing = TRUE]

\* startScreenShare from the moment getDisplayMedia settles: a rejection is
\* logged; else the track is stored and, with a video sender, the handler
\* awaits replaceTrack
StartScreenShareAfterDisplayMedia(s, ok) ==
  IF ~ok THEN s
  ELSE LET s1 == [s EXCEPT !.screenTrack = "live",
                           !.screenLeak = @ \/ s.screenTrack \in {"live", "watched"}]
       IN IF s.sender # "none"
          THEN IF ReplaceTrackWaits(s)
               THEN Spawn(s1, Task("startScreenShare", "replaceTrack", Empty, "open"))
               ELSE StartScreenShareShown([s1 EXCEPT !.sender = "screen"])
          ELSE StartScreenShareShown(s1)

\* toggleScreenShare up to its end or its first suspension
ToggleScreenSharePressed(s) ==
  IF s.isScreenSharing THEN StopScreenShare(s, "stopScreenShare")
  ELSE IF s.localStream
       THEN Spawn(s, Task("toggleScreenShare", "getDisplayMedia", Empty, "none"))
       ELSE Spawn(s, Task("toggleScreenShare", "getUserMedia", Empty, "none"))

\* initiateOffer from "const peer = createPeerConnection()" to the await of
\* createOffer
InitiateOfferAfterMedia(s, targetId) ==
  LET s1 == CreatePeerConnection(s)
      s2 == [s1 EXCEPT !.remoteSocketId = targetId]
  IN Spawn(s2, Task("initiateOffer", "createOffer", targetId, "open"))

\* initiateOffer up to its first suspension: ensureLocalStream waits for
\* getUserMedia only when no local stream is held
InitiateOffer(s, targetId) ==
  IF s.localStream THEN InitiateOfferAfterMedia(s, targetId)
  ELSE Spawn(s, Task("initiateOffer", "getUserMedia", targetId, "none"))

\* handleRemoteOffer from createPeerConnection to the await of
\* setRemoteDescription
HandleRemoteOfferAfterMedia(s, fromId) ==
  LET s1 == CreatePeerConnection(s)
      s2 == [s1 EXCEPT !.remoteSocketId = fromId]
  IN Spawn(s2, Task("handleRemoteOffer", "setRemoteDescription", fromId, "open"))

\* an offer answered by an offer of one's own
HandleRemoteOfferByOffer(s, fromId) == InitiateOffer(s, fromId)

HandleRemoteOffer(s, fromId) ==
  IF s.localStream THEN HandleRemoteOfferAfterMedia(s, fromId)
  ELSE Spawn(s, Task("handleRemoteOffer", "getUserMedia", fromId, "none"))

\* socket.on("answer"): remember the sender, then handleRemoteAnswer up to the
\* await of setRemoteDescription
OnAnswer(s, from) ==
  LET s1 == [s EXCEPT !.remoteSocketId = from]
  IN IF s1.peerRef
     THEN Spawn(s1, Task("handleRemoteAnswer", "setRemoteDescription", from, "open"))
     ELSE s1

\* handleExistingParticipants: call the first listed participant
HandleExistingParticipants(s, participants) ==
  IF participants # <<>> THEN InitiateOffer(s, participants[1]) ELSE s

\* handleUserJoined: ignored while another remote id is tracked
HandleUserJoined(s, socketId) ==
  IF s.remoteSocketId # Empty /\ s.remoteSocketId # socketId THEN s
  ELSE InitiateOffer(s, socketId)

\* a handler of user-left that only stops the recording
HandleUserLeftOnlyRecorder(s) == StopRecording(s)

\* handleUserLeft: the socketId of the event is not looked at
HandleUserLeft(s) == CleanupPeerConnection(StopRecording(s))

\* a setRemoteDescription of the open connection is under way
RemoteDescriptionPending(s) ==
  \E t \in BagToSet(s.tasks) : t.pc = "setRemoteDescription" /\ t.peer = "open"

\* a connection that would add a candidate at once, whatever its remote
\* description
OnIceCandidateAtOnce(s, from) ==
  LET s1 == IF from # Empty THEN [s EXCEPT !.remoteSocketId = from] ELSE s
  IN IF s1.peerRef
     THEN Spawn(s1, Task("handleRemoteCandidate", "addIceCandidate resolves", from, "open"))
     ELSE s1

\* socket.on("ice-candidate"): remember the sender, then handleRemoteCandidate
\* up to the await of addIceCandidate.  The connection runs its operations in
\* the order they were called: behind a pending setRemoteDescription the
\* candidate waits for it, else it is added if a remote description is set
\* and rejected if none is.
OnIceCandidate(s, from) ==
  LET s1 == IF from # Empty THEN [s EXCEPT !.remoteSocketId = from] ELSE s
      pc == IF RemoteDescriptionPending(s1) THEN "addIceCandidate"
            ELSE IF s1.remoteDesc THEN "addIceCandidate resolves"
            ELSE "addIceCandidate rejects"
  IN IF s1.peerRef
     THEN Spawn(s1, Task("handleRemoteCandidate", pc, from, "open"))
     ELSE s1

\* activeUserName: the trimmed prop, or "Participant" when that is empty
ActiveUserName(s) == IF s.userName = Empty THEN "Participant" ELSE s.userName

\* handleChatMessage: a message whose sender is the own display name is taken
\* for the echo of a message of one's own and dropped
HandleChatMessage(s, sender, message) ==
  IF sender = ActiveUserName(s) THEN s
  ELSE [s EXCEPT !.chatMessages = Append(@, [sender |-> sender, message |-> message])]

\* sendMessage: a text with something in it is logged as sent by "You" and
\* emitted with the display name
SendMessageOut(s, roomId, text) ==
  IF Trim(text) = <<>> THEN Result(s, <<>>)
  ELSE Result([s EXCEPT !.chatMessages =
                          Append(@, [sender |-> "You", message |-> Trim(text)])],
              <<Msg("chat-message", roomId, ActiveUserName(s), Trim(text))>>)

\* the handler the socket runs for one received event
OnEvent(s, e) ==
  CASE e.type = "existing-participants" -> HandleExistingParticipants(s, e.participants)
    [] e.type = "user-joined" -> HandleUserJoined(s, e.id)
    [] e.type = "user-left" -> HandleUserLeft(s)
    [] e.type = "offer" -> HandleRemoteOffer(s, e.id)
    [] e.type = "answer" -> OnAnswer(s, e.id)
    [] e.type = "ice-candidate" -> OnIceCandidate(s, e.id)
    [] e.type = "chat-message" -> HandleChatMessage(s, e.name, e.payload)
    [] OTHER -> s

\* startMedia(video, audio) from the moment getUserMedia settles: the new
\* stream replaces the held one (whose tracks are stopped), or the catch sets
\* cameraError and turns both flags off.
StartMediaSettled(s, video, audio, ok) ==
  IF ok
  THEN SyncTracksWithPeer(
         [s EXCEPT !.localStream = TRUE, !.cameraError = FALSE,
                   !.videoTrack = IF video THEN "enabled" ELSE "none",
                   !.audioTrack = IF audio THEN "enabled" ELSE "none"])
  ELSE [s EXCEPT !.cameraError = TRUE, !.isVideoOn = FALSE, !.isAudioOn = FALSE]

\* getUserMedia settles (startMedia catches a failure, so ensureLocalStream
\* resolves either way) and the handler that waited for it goes on
AfterGetUserMedia(s, t, ok) ==
  LET s0 == StartMediaSettled(Finish(s, t), t.video, t.audio, ok)
      s1 == IF t.kind = "toggleVideo" THEN [s0 EXCEPT !.isVideoOn = TRUE]
            ELSE IF t.kind = "toggleAudio" THEN [s0 EXCEPT !.isAudioOn = TRUE]
            ELSE [s0 EXCEPT !.isVideoOn = TRUE, !.isAudioOn = TRUE]
  IN CASE t.kind = "initiateOffer" -> InitiateOfferAfterMedia(s1, t.target)
       [] t.kind = "handleRemoteOffer" -> HandleRemoteOfferAfterMedia(s1, t.target)
       [] t.kind = "toggleScreenShare" ->
            Spawn(s1, Task("toggleScreenShare", "getDisplayMedia", Empty, "none"))
       [] OTHER -> s1

\* The await of task t on its RTCPeerConnection rejects: the connection was
\* closed, or its signaling state does not allow the call.  rollback: whether
\* the browser rolls a pending local offer back to apply a remote one (it
\* rejects otherwise).
Rejects(s, t, rollback) ==
  CASE ~Holds(s, t) -> TRUE
    [] t.kind = "initiateOffer" /\ t.pc = "createOffer" -> FALSE
    [] t.kind = "initiateOffer" /\ t.pc = "setLocalDescription" ->
         s.sig \notin {"stable", "have-local-offer"}
    [] t.kind = "handleRemoteOffer" /\ t.pc = "setRemoteDescription" ->
         s.sig = "have-local-offer" /\ ~rollback
    [] t.kind = "handleRemoteOffer" /\ t.pc = "createAnswer" ->
         s.sig # "have-remote-offer"
    [] t.kind = "handleRemoteOffer" /\ t.pc = "setLocalDescription" ->
         s.sig # "have-remote-offer"
    [] t.kind = "handleRemoteAnswer" /\ t.pc = "setRemoteDescription" ->
         s.sig # "have-local-offer"
    [] t.kind = "handleRemoteCandidate" /\ t.pc = "addIceCandidate" -> ~s.remoteDesc
    [] t.kind = "handleRemoteCandidate" /\ t.pc = "addIceCandidate resolves" -> FALSE
    [] t.pc = "replaceTrack" -> FALSE
    [] OTHER -> TRUE

\* An await on the RTCPeerConnection settles.  When it rejects, the catch of
\* the handler logs the error and the handler ends; else the handler runs on
\* to its next await or to its end.
AfterPeerCall(s, t, rollback) ==
  LET done == Finish(s, t)
      next(pc) == Spawn(done, [t EXCEPT !.pc = pc])
  IN CASE Rejects(s, t, rollback) -> Result(done, <<>>)
       [] t.kind = "initiateOffer" /\ t.pc = "createOffer" ->
            Result(next("setLocalDescription"), <<>>)
       [] t.kind = "initiateOffer" /\ t.pc = "setLocalDescription" ->
            Result([done EXCEPT !.sig = "have-local-offer", !.localDesc = "offer"],
                   <<Msg("offer", t.target, Empty, <<"a">>)>>)
       [] t.kind = "handleRemoteOffer" /\ t.pc = "setRemoteDescription" ->
            Result([next("createAnswer") EXCEPT
                      !.sig = "have-remote-offer", !.remoteDesc = TRUE,
                      !.localDesc = IF s.sig = "have-local-offer" THEN "none" ELSE @],
                   <<>>)
       [] t.kind = "handleRemoteOffer" /\ t.pc = "createAnswer" ->
            Result(next("setLocalDescription"), <<>>)
       [] t.kind = "handleRemoteOffer" /\ t.pc = "setLocalDescription" ->
            Result([done EXCEPT !.sig = "stable", !.localDesc = "answer"],
                   <<Msg("answer", t.target, Empty, <<"a">>)>>)
       [] t.kind = "handleRemoteAnswer" /\ t.pc = "setRemoteDescription" ->
            Result([done EXCEPT !.sig = "stable", !.remoteDesc = TRUE], <<>>)
       [] t.kind = "startScreenShare" /\ t.pc = "replaceTrack" ->
            Result(StartScreenShareShown([done EXCEPT !.sender = "screen"]), <<>>)
       [] t.pc = "replaceTrack" ->
            Result(AfterStopScreenShare([done EXCEPT !.sender = "camera"], t.kind), <<>>)
       [] OTHER -> Result(done, <<>>)

(* ----------------------- server and clients together ------------------- *)

\* the ids a batch of events announces: user-joined and existing-participants
Announced(events) ==
  UNION {IF events[i].type = "user-joined" THEN {events[i].id}
         ELSE IF events[i].type = "existing-participants"
              THEN SetOf(events[i].participants)
              ELSE {} : i \in 1..Len(events)}

MountedComponent ==
  Component(TRUE, Empty, FALSE, FALSE, "stable", FALSE, Empty,
            SetToBag({Task("ensureLocalStream", "getUserMedia", Empty, "none")}))

\* the two components of a session are mounted; io() is connecting and the
\* mount effect has called ensureLocalStream
Init ==
  /\ InitServer
  /\ lastOp = Op("init", Empty, Empty, Empty, <<>>)
  /\ lastEmit = NoEmit
  /\ relays = 0
  /\ cl = [c \in Clients |->
             IF c \in TwoParty THEN [MountedComponent EXCEPT !.userName = ClientName(c)]
             ELSE Unmounted]
  /\ inbox = [h \in Handles |-> <<>>]
  /\ outbox = [c \in Clients |-> <<>>]
  /\ told = [h \in Handles |-> {}]
  /\ mediaFailures = 0

\* The transport of c connects (first connection or reconnection): the server
\* gets a socket with a fresh id, the client flushes what it emitted while
\* disconnected and its "connect" handler emits join-room.
Connect(c) ==
  /\ cl[c].mounted
  /\ cl[c].sock = Empty
  /\ \E h \in Handles :
       /\ Connection(h)
       /\ cl' = [cl EXCEPT ![c].sock = h]
  /\ outbox' = [outbox EXCEPT ![c] =
                  Append(@, Msg("join-room", ClientRoom(c), ActiveUserName(cl[c]), <<>>))]
  /\ UNCHANGED <<lastOp, lastEmit, relays, inbox, told, mediaFailures>>

\* the server handles the next event of c's socket and its emits travel
ServerHandle(c) ==
  LET h == cl[c].sock
      m == Head(outbox[c])
      emit == CASE m.type = "join-room" -> JoinRoomEmit(h, m.arg, m.name)
                [] m.type \in RelayTypes -> RelayEmit(m.type, h, m.arg, m.payload)
                [] OTHER -> ChatEmit(h, m.arg, m.name, TRUE, m.payload)
  IN /\ h # Empty
     /\ outbox[c] # <<>>
     /\ CASE m.type = "join-room" -> JoinRoom(h, m.arg, m.name)
          [] m.type \in RelayTypes -> Relay(m.type, h, m.arg, m.payload)
          [] OTHER -> Chat(h, m.arg, m.name, TRUE, m.payload)
     /\ outbox' = [outbox EXCEPT ![c] = Tail(@)]
     /\ inbox' = [g \in Handles |-> inbox[g] \o emit[g]]
     /\ told' = [g \in Handles |-> told[g] \cup Announced(emit[g])]
     /\ UNCHANGED <<lastOp, lastEmit, relays, cl, mediaFailures>>

\* the socket of c receives the next event and runs its handler
ClientReceive(c) ==
  LET h == cl[c].sock
  IN /\ h # Empty
     /\ inbox[h] # <<>>
     /\ BagCardinality(cl[c].tasks) < MaxTasks
     /\ cl' = [cl EXCEPT ![c] = OnEvent(@, Head(inbox[h]))]
     /\ inbox' = [inbox EXCEPT ![h] = Tail(@)]
     /\ UNCHANGED <<serverVars, relays, outbox, told, mediaFailures>>

\* getUserMedia of a waiting handler settles
MediaSettles(c) ==
  \E t \in BagToSet(cl[c].tasks), ok \in BOOLEAN :
    /\ t.pc = "getUserMedia"
    /\ (~ok => mediaFailures < MaxMediaFailures)
    /\ mediaFailures' = (IF ok THEN mediaFailures ELSE mediaFailures + 1)
    /\ cl' = [cl EXCEPT ![c] = AfterGetUserMedia(@, t, ok)]
    /\ UNCHANGED <<serverVars, relays, inbox, outbox, told>>

\* an await on the RTCPeerConnection settles and the handler runs on to its
\* next await or its end; what it emits is buffered while disconnected
PeerCallSettles(c) ==
  \E t \in BagToSet(cl[c].tasks), rollback \in BOOLEAN :
    /\ t.pc \notin {"getUserMedia", "getDisplayMedia"}
    /\ t.kind # "handleEndCall"
    /\ (t.pc = "addIceCandidate" => ~RemoteDescriptionPending(cl[c]))
    /\ LET r == AfterPeerCall(cl[c], t, rollback)
       IN /\ cl' = [cl EXCEPT ![c] = r.s]
          /\ outbox' = [outbox EXCEPT ![c] = @ \o r.out]
    /\ UNCHANGED <<serverVars, relays, inbox, told, mediaFailures>>

\* The transport of c drops: the server runs "disconnecting" for its socket,
\* the client its "disconnect" handler; what was in flight is lost.  (Drops
\* are followed while a socket id is left for the reconnection.)
Drop(c) ==
  LET h == cl[c].sock
  IN /\ h # Empty
     /\ Cardinality(used) < Len(HandleNames)
     /\ Disconnecting(h)
     /\ cl' = [cl EXCEPT ![c] = [CleanupPeerConnection(@) EXCEPT !.sock = Empty]]
     /\ inbox' = [g \in Handles |->
                    IF g = h THEN <<>> ELSE inbox[g] \o DisconnectingEmit(h)[g]]
     /\ outbox' = [outbox EXCEPT ![c] = <<>>]
     /\ UNCHANGED <<lastOp, lastEmit, relays, told, mediaFailures>>

Next ==
  \E c \in TwoParty :
    \/ Connect(c)
    \/ ServerHandle(c)
    \/ ClientReceive(c)
    \/ MediaSettles(c)
    \/ PeerCallSettles(c)
    \/ Drop(c)

Spec == Init /\ [][Next]_vars

(* ------------------------- the call of two parties --------------------- *)

\* getUserMedia of a waiting handler resolves
MediaSucceeds(c) ==
  \E t \in BagToSet(cl[c].tasks) :
    /\ t.pc = "getUserMedia"
    /\ cl' = [cl EXCEPT ![c] = AfterGetUserMedia(@, t, TRUE)]
    /\ UNCHANGED <<serverVars, relays, inbox, outbox, told, mediaFailures>>

\* the connection of component d sends tracks to component c
Sends(d, c) ==
  /\ cl[d].peerRef /\ HasSenders(cl[d])
  /\ cl[d].sock # Empty /\ cl[c].sock # Empty
  /\ cl[d].remoteSocketId = cl[c].sock
  /\ cl[c].remoteSocketId = cl[d].sock

\* the local description of component c describes media: its own offer when
\* its connection has senders, its answer when the offering connection has
\* them
DescribesMedia(c) ==
  \/ cl[c].localDesc = "offer" /\ HasSenders(cl[c])
  \/ cl[c].localDesc = "answer" /\ \E d \in Clients \ {c} : Sends(d, c)

\* peer.onicecandidate: the connection has a local description with media and
\* gathers a candidate; it is sent when a remote id is tracked
IceCandidate(c) ==
  LET s == cl[c]
  IN /\ s.peerRef
     /\ DescribesMedia(c)
     /\ s.gathered < MaxCandidates
     /\ cl' = [cl EXCEPT ![c].gathered = @ + 1]
     /\ outbox' = IF s.remoteSocketId # Empty
                  THEN [outbox EXCEPT ![c] =
                          Append(@, Msg("ice-candidate", s.remoteSocketId, Empty, <<"a">>))]
                  ELSE outbox
     /\ UNCHANGED <<serverVars, relays, inbox, told, mediaFailures>>

\* peer.ontrack: the remote description brought a stream, which it does when
\* the remote connection sends tracks
RemoteTrack(c) ==
  /\ cl[c].peerRef
  /\ cl[c].remoteDesc
  /\ \E d \in Clients \ {c} : Sends(d, c)
  /\ ~cl[c].remoteStream
  /\ cl' = [cl EXCEPT ![c].remoteStream = TRUE, ![c].remoteLive = TRUE]
  /\ UNCHANGED <<serverVars, relays, inbox, outbox, told, mediaFailures>>

\* the connection of s has completed an offer / answer exchange
Negotiated(s) ==
  s.peerRef /\ s.sig = "stable" /\ s.remoteDesc /\ s.localDesc # "none"

\* the connections of a and b have completed the same exchange, one with its
\* offer and the other with the answer to it
Paired(a, b) ==
  /\ Negotiated(cl[a]) /\ Negotiated(cl[b])
  /\ cl[a].localDesc # cl[b].localDesc
  /\ cl[a].sock # Empty /\ cl[b].sock # Empty
  /\ cl[a].remoteSocketId = cl[b].sock
  /\ cl[b].remoteSocketId = cl[a].sock

\* peer.onconnectionstatechange with state "connected"
PeerConnected(c) ==
  /\ \E d \in Clients \ {c} : Paired(c, d)
  /\ DescribesMedia(c)
  /\ ~cl[c].isConnected
  /\ cl' = [cl EXCEPT ![c].isConnected = TRUE]
  /\ UNCHANGED <<serverVars, relays, inbox, outbox, told, mediaFailures>>

\* a startRecording that does not look for a remote stream
StartRecordingWithoutStream(s, supported) ==
  IF s.isRecording THEN s
  ELSE [s EXCEPT !.recorder = TRUE, !.isRecording = TRUE,
                 !.recording = @ + 1, !.timers = @ + 1,
                 !.chunks = <<>>, !.duration = 0,
                 !.cycle = @ + 1, !.made = 0, !.secs = 0]

\* a startRecording that does not look at isRecording
StartRecordingAgain(s, supported) ==
  IF ~s.remoteStream THEN s
  ELSE [s EXCEPT !.recorder = TRUE, !.isRecording = TRUE,
                 !.recording = @ + 1, !.timers = @ + 1,
                 !.chunks = <<>>, !.duration = 0,
                 !.cycle = @ + 1, !.made = 0, !.secs = 0]

\* startRecording; supported: whether MediaRecorder accepts the mimeType.
\* When it throws, the catch stops every track of the stream that
\* buildRecordingStream made, the remote tracks among them.
StartRecording(s, supported) ==
  IF s.isRecording \/ ~s.remoteStream THEN s
  ELSE IF supported
       THEN [s EXCEPT !.recorder = TRUE, !.isRecording = TRUE,
                      !.recording = @ + 1, !.timers = @ + 1,
                      !.chunks = <<>>, !.duration = 0,
                      !.cycle = @ + 1, !.made = 0, !.secs = 0]
       ELSE [s EXCEPT !.remoteLive = FALSE]

\* the user presses the record button
RecordPressed(c) ==
  \E supported \in BOOLEAN :
    /\ cl[c].mounted
    /\ (~cl[c].isRecording => cl[c].cycle < MaxCycles)
    /\ cl' = [cl EXCEPT ![c] = IF @.isRecording THEN StopRecording(@)
                               ELSE StartRecording(@, supported)]
    /\ cl' # cl
    /\ UNCHANGED <<serverVars, relays, inbox, outbox, told, mediaFailures>>

\* stopMedia: stop and forget the local stream and a held display track,
\* turn the flags off
StopMedia(s) ==
  [s EXCEPT !.localStream = FALSE, !.videoTrack = "none", !.audioTrack = "none",
            !.screenTrack = "none",
            !.isScreenSharing = IF s.screenTrack # "none" THEN FALSE ELSE @,
            !.isVideoOn = FALSE, !.isAudioOn = FALSE]

\* handleEndCall from "socketRef.current?.disconnect()" on, in a component
\* that is in state s: the socket is disconnected for good (the server runs
\* "disconnecting", the client its "disconnect" handler), cleanup, stopMedia;
\* onEndCall unmounts the component.
EndCallTeardown(c, s) ==
  LET h == cl[c].sock
  IN /\ cl' = [cl EXCEPT ![c] =
                 [StopMedia(CleanupPeerConnection(s)) EXCEPT !.sock = Empty,
                                                              !.mounted = FALSE]]
     /\ IF h # Empty
        THEN /\ Disconnecting(h)
             /\ inbox' = [g \in Handles |->
                            IF g = h THEN <<>> ELSE inbox[g] \o DisconnectingEmit(h)[g]]
        ELSE UNCHANGED <<connected, used, rooms, joined, inbox>>
     /\ outbox' = [outbox EXCEPT ![c] = <<>>]
     /\ UNCHANGED <<lastOp, lastEmit, relays, told, mediaFailures>>

\* the user presses End Call: handleEndCall, which first awaits
\* stopScreenShare when isScreenSharing is on
EndCall(c) ==
  LET s0 == IF cl[c].isScreenSharing THEN StopScreenShare(cl[c], "handleEndCall")
            ELSE cl[c]
  IN /\ cl[c].sock # Empty
     /\ BagCardinality(s0.tasks) <= MaxTasks
     /\ IF s0.tasks # cl[c].tasks
        THEN /\ cl' = [cl EXCEPT ![c] = s0]
             /\ UNCHANGED <<serverVars, relays, inbox, outbox, told, mediaFailures>>
        ELSE EndCallTeardown(c, s0)

\* replaceTrack of a waiting handleEndCall settles: the handler goes on, or
\* ends there when the connection has been closed meanwhile
EndCallResumes(c) ==
  \E t \in BagToSet(cl[c].tasks) :
    /\ t.kind = "handleEndCall"
    /\ IF Holds(cl[c], t)
       THEN EndCallTeardown(c, AfterStopScreenShare(
                                 [Finish(cl[c], t) EXCEPT !.sender = "camera"], t.kind))
       ELSE /\ cl' = [cl EXCEPT ![c] = Finish(@, t)]
            /\ UNCHANGED <<serverVars, relays, inbox, outbox, told, mediaFailures>>

\* two parties on a transport that delivers everything, with media that can
\* be acquired: the negotiation up to the connected state
NextCall ==
  \E c \in TwoParty :
    \/ Connect(c)
    \/ ServerHandle(c)
    \/ ClientReceive(c)
    \/ MediaSucceeds(c)
    \/ PeerCallSettles(c)
    \/ IceCandidate(c)
    \/ PeerConnected(c)

SpecCall == Init /\ [][NextCall]_vars

\* the same two parties with the remote stream, the recorder and the end of
\* the call (the exchange of ICE candidates left out)
NextHangup ==
  \E c \in TwoParty :
    \/ Connect(c)
    \/ ServerHandle(c)
    \/ ClientReceive(c)
    \/ MediaSucceeds(c)
    \/ PeerCallSettles(c)
    \/ RemoteTrack(c)
    \/ PeerConnected(c)
    \/ RecordPressed(c)
    \/ EndCall(c)

SpecHangup == Init /\ [][NextHangup]_vars

(* ------------------------------ the recorder --------------------------- *)

\* the recording timer fires: setRecordingDuration(prev => prev + 1), which
\* also stores the new value in recordingDurationRef
Tick(c) ==
  /\ cl[c].timers > 0
  /\ cl[c].secs < MaxSeconds
  /\ cl' = [cl EXCEPT ![c].duration = @ + 1, ![c].secs = @ + 1]
  /\ UNCHANGED <<serverVars, relays, inbox, outbox, told, mediaFailures>>

\* recorder.ondataavailable of the recorder that records: the chunk is pushed
\* to recordingChunksRef
DataAvailable(c) ==
  /\ cl[c].recorder
  /\ cl[c].made < MaxChunks
  /\ cl' = [cl EXCEPT ![c].chunks = Append(@, cl[c].cycle), ![c].made = @ + 1]
  /\ UNCHANGED <<serverVars, relays, inbox, outbox, told, mediaFailures>>

\* The events of a stopped recorder r are handled: ondataavailable pushes its
\* last chunk, then onstop makes the blob of recordingChunksRef, reads the
\* duration from recordingDurationRef, empties the chunks and resets the
\* duration, and hands the artifact to onRecordingReady.
OnStop(s, r) ==
  LET blob == Append(s.chunks, r.cycle)
  IN [s EXCEPT !.chunks = <<>>, !.duration = 0,
               !.artifacts = Append(@, [cycle |-> r.cycle, chunks |-> blob,
                                        duration |-> s.duration,
                                        made |-> r.made, secs |-> r.secs])]

RecorderStops(c) ==
  /\ cl[c].stopping # <<>>
  /\ cl' = [cl EXCEPT ![c] = [OnStop(@, Head(@.stopping)) EXCEPT !.stopping = Tail(@)]]
  /\ UNCHANGED <<serverVars, relays, inbox, outbox, told, mediaFailures>>

\* the party that records (the components are alike)
Recordists == {"A"}

\* two parties in a call, the record button of one of them and the events of
\* its recorder
NextRecorder ==
  \/ \E c \in TwoParty :
       \/ Connect(c)
       \/ ServerHandle(c)
       \/ ClientReceive(c)
       \/ MediaSucceeds(c)
       \/ PeerCallSettles(c)
       \/ RemoteTrack(c)
  \/ \E c \in Recordists :
       \/ RecordPressed(c)
       \/ Tick(c)
       \/ DataAvailable(c)
       \/ RecorderStops(c)

SpecRecorder == Init /\ [][NextRecorder]_vars

(* ------------------------- camera and microphone ----------------------- *)

\* toggleVideo up to its end or to the await of startMedia(true, isAudioOn)
ToggleVideoPressed(s) ==
  IF s.isVideoOn
  THEN IF s.isScreenSharing THEN StopScreenShare(s, "toggleVideo")
       ELSE [s EXCEPT !.videoTrack = SetTrackEnabled(@, FALSE), !.isVideoOn = FALSE]
  ELSE IF ~s.localStream
       THEN Spawn(s, [Task("toggleVideo", "getUserMedia", Empty, "none")
                        EXCEPT !.video = TRUE, !.audio = s.isAudioOn])
       ELSE [s EXCEPT !.videoTrack = SetTrackEnabled(@, TRUE), !.isVideoOn = TRUE]

\* toggleAudio up to its end or to the await of startMedia(isVideoOn, true)
ToggleAudioPressed(s) ==
  IF s.isAudioOn
  THEN [s EXCEPT !.audioTrack = SetTrackEnabled(@, FALSE), !.isAudioOn = FALSE]
  ELSE IF ~s.localStream
       THEN Spawn(s, [Task("toggleAudio", "getUserMedia", Empty, "none")
                        EXCEPT !.video = s.isVideoOn, !.audio = TRUE])
       ELSE [s EXCEPT !.audioTrack = SetTrackEnabled(@, TRUE), !.isAudioOn = TRUE]

\* the user presses the camera button
ToggleVideo(c) ==
  /\ cl[c].mounted
  /\ BagCardinality(cl[c].tasks) < MaxTasks
  /\ cl' = [cl EXCEPT ![c] = ToggleVideoPressed(@)]
  /\ UNCHANGED <<serverVars, relays, inbox, outbox, told, mediaFailures>>

\* the user presses the microphone button
ToggleAudio(c) ==
  /\ cl[c].mounted
  /\ BagCardinality(cl[c].tasks) < MaxTasks
  /\ cl' = [cl EXCEPT ![c] = ToggleAudioPressed(@)]
  /\ UNCHANGED <<serverVars, relays, inbox, outbox, told, mediaFailures>>

\* getUserMedia of a waiting caller of startMedia settles
AcquisitionSettles(c) ==
  \E t \in BagToSet(cl[c].tasks), ok \in BOOLEAN :
    /\ t.pc = "getUserMedia"
    /\ (~ok => mediaFailures < MaxAcquisitionFailures)
    /\ mediaFailures' = (IF ok THEN mediaFailures ELSE mediaFailures + 1)
    /\ cl' = [cl EXCEPT ![c] = AfterGetUserMedia(@, t, ok)]
    /\ UNCHANGED <<serverVars, relays, inbox, outbox, told>>

\* the user presses the screen share button
ToggleScreenShare(c) ==
  /\ cl[c].mounted
  /\ BagCardinality(cl[c].tasks) < MaxTasks
  /\ cl' = [cl EXCEPT ![c] = ToggleScreenSharePressed(@)]
  /\ UNCHANGED <<serverVars, relays, inbox, outbox, told, mediaFailures>>

\* getDisplayMedia of a waiting toggleScreenShare settles: the user picked a
\* surface or dismissed the prompt
DisplayMediaSettles(c) ==
  \E t \in BagToSet(cl[c].tasks), ok \in BOOLEAN :
    /\ t.pc = "getDisplayMedia"
    /\ cl' = [cl EXCEPT ![c] = StartScreenShareAfterDisplayMedia(Finish(@, t), ok)]
    /\ UNCHANGED <<serverVars, relays, inbox, outbox, told, mediaFailures>>

\* the browser ends the display track (the user stops sharing in the browser
\* bar): its onended handler, when set, runs stopScreenShare
ScreenTrackEnded(c) ==
  /\ cl[c].screenTrack \in {"live", "watched"}
  /\ BagCardinality(cl[c].tasks) < MaxTasks
  /\ cl' = [cl EXCEPT ![c] = IF @.screenTrack = "watched"
                             THEN StopScreenShare(@, "onended")
                             ELSE [@ EXCEPT !.screenTrack = "ended"]]
  /\ UNCHANGED <<serverVars, relays, inbox, outbox, told, mediaFailures>>

\* the user turns the camera off while the screen is shared
CameraOffWhileSharing(c) ==
  /\ cl[c].isScreenSharing
  /\ cl[c].isVideoOn
  /\ ToggleVideo(c)

\* components a and b track each other as remote peer
Tracking(a, b) ==
  /\ cl[a].sock # Empty /\ cl[b].sock # Empty
  /\ cl[a].remoteSocketId = cl[b].sock
  /\ cl[b].remoteSocketId = cl[a].sock

\* no handler of component c is suspended and no event of its socket is on
\* its way
Idle(c) ==
  /\ cl[c].tasks = EmptyBag
  /\ outbox[c] = <<>>
  /\ cl[c].sock # Empty => inbox[cl[c].sock] = <<>>

\* a further participant opens the room of two parties that track each other
\* and have finished whatever they were doing: its component is mounted
Mount(c) ==
  /\ cl[c] = Unmounted
  /\ Cardinality(used) < Len(HandleNames)
  /\ \E a, b \in TwoParty : a # b /\ Tracking(a, b) /\ Idle(a) /\ Idle(b)
  /\ cl' = [cl EXCEPT ![c] = [MountedComponent EXCEPT !.userName = ClientName(c)]]
  /\ UNCHANGED <<serverVars, relays, inbox, outbox, told, mediaFailures>>

\* the participants beyond the two parties
Joiners == Clients \ TwoParty

\* two parties and a third participant that joins their room, runs the same
\* component and leaves
NextThree ==
  \/ \E c \in Clients :
       \/ Connect(c)
       \/ ServerHandle(c)
       \/ ClientReceive(c)
       \/ MediaSucceeds(c)
       \/ PeerCallSettles(c)
  \/ \E c \in Joiners :
       \/ Mount(c)
       \/ EndCall(c)

SpecThree == Init /\ [][NextThree]_vars

\* chat messages one component sends in one run
MaxSent == 1

\* the texts the user of component c types: one with something in it (its
\* letter names the component that sent it) and a blank one
Typed(c) == {<<" ", c>>, <<" ">>}

\* the messages component s has sent
Sent(s) == SelectSeq(s.chatMessages, LAMBDA m : m.sender = "You")

\* the user of c sends a chat message; it is buffered while disconnected
SendMessage(c) ==
  \E text \in Typed(c) :
    LET r == SendMessageOut(cl[c], ClientRoom(c), text)
    IN /\ cl[c].mounted
       /\ Len(Sent(cl[c])) < MaxSent
       /\ r.out # <<>>
       /\ cl' = [cl EXCEPT ![c] = r.s]
       /\ outbox' = [outbox EXCEPT ![c] = @ \o r.out]
       /\ UNCHANGED <<serverVars, relays, inbox, told, mediaFailures>>

\* the two components are mounted with display names of any kind, the same
\* name for both included
InitLog ==
  /\ InitServer
  /\ lastOp = Op("init", Empty, Empty, Empty, <<>>)
  /\ lastEmit = NoEmit
  /\ relays = 0
  /\ \E names \in [TwoParty -> UserNames] :
       cl = [c \in Clients |->
               IF c \in TwoParty THEN [MountedComponent EXCEPT !.userName = names[c]]
               ELSE Unmounted]
  /\ inbox = [h \in Handles |-> <<>>]
  /\ outbox = [c \in Clients |-> <<>>]
  /\ told = [h \in Handles |-> {}]
  /\ mediaFailures = 0

\* the party that writes in the chat (the components are alike)
Writers == {"A"}

\* two parties that join the room and negotiate, and the chat of one of them
NextLog ==
  \/ \E c \in TwoParty :
       \/ Connect(c)
       \/ ServerHandle(c)
       \/ ClientReceive(c)
       \/ MediaSucceeds(c)
       \/ PeerCallSettles(c)
  \/ \E c \in Writers : SendMessage(c)

SpecLog == InitLog /\ [][NextLog]_vars

\* the party that shares its screen (the components are alike)
Sharers == {"A"}

\* two parties in a call, the screen share and camera buttons of one of them
\* and the end of the call
NextScreen ==
  \/ \E c \in TwoParty :
       \/ Connect(c)
       \/ ServerHandle(c)
       \/ ClientReceive(c)
       \/ MediaSucceeds(c)
       \/ PeerCallSettles(c)
       \/ EndCall(c)
       \/ EndCallResumes(c)
  \/ \E c \in Sharers :
       \/ ToggleScreenShare(c)
       \/ DisplayMediaSettles(c)
       \/ ScreenTrackEnded(c)
       \/ CameraOffWhileSharing(c)

SpecScreen == Init /\ [][NextScreen]_vars

\* the components before a peer joins: the camera and the microphone only
NextMedia ==
  \E c \in TwoParty :
    \/ AcquisitionSettles(c)
    \/ ToggleVideo(c)
    \/ ToggleAudio(c)

SpecMedia == Init /\ [][NextMedia]_vars

(* ------------------------------- claims -------------------------------- *)

Members(R) == SetOf(rooms[R])

\* an offer of component a for the socket of component b is on its way
OfferInFlight(a, b) ==
  /\ cl[a].sock # Empty
  /\ cl[b].sock # Empty
  /\ \/ \E i \in 1..Len(outbox[a]) :
          outbox[a][i].type = "offer" /\ outbox[a][i].arg = cl[b].sock
     \/ \E i \in 1..Len(inbox[cl[b].sock]) :
          inbox[cl[b].sock][i].type = "offer" /\ inbox[cl[b].sock][i].id = cl[a].sock

\* C1: in a two-party room only one side offers in a negotiation round: the
\* two components never both have an offer for the other on its way.
NoGlare == ~(OfferInFlight("A", "B") /\ OfferInFlight("B", "A"))

\* C2: after any sequence of connect, join-room and disconnect events the
\* members of every room R are exactly the connected sockets that issued
\* join-room for R and have not disconnected since, each once; a room nobody
\* joined has no members.  (socket.io keeps the private channel of a socket
\* in the same registry: the socket is in the room named by its own id
\* exactly while it is connected, and that membership is not counted.)
MembershipIsJoined ==
  \A R \in RoomIds :
    /\ Members(R) \ {R} = joined[R] \ {R}
    /\ joined[R] \subseteq connected
    /\ NoDup(rooms[R])
    /\ R \in Handles => (R \in Members(R) <=> R \in connected)

\* a socket left a room that another joiner stays in
MembershipWitness ==
  /\ lastOp.op = "disconnecting"
  /\ \E R \in RoomNames, m \in Handles :
       /\ lastEmit[m] # <<>>
       /\ joined[R] = {m}
       /\ rooms[R] = <<m>>

\* C3: every socket is a member of at most one signaling room, its own
\* private channel not counted.
AtMostOneRoom ==
  \A h \in Handles : Cardinality({R \in RoomIds \ {h} : h \in Members(R)}) <= 1

\* C4: when member h of a room disconnects, every other member of a room of h
\* receives exactly one user-left(h), and nobody else receives any.
UserLeftOncePerMember ==
  [][\A h \in Handles :
       (h \in connected /\ h \notin connected' /\ lastOp'.op = "disconnecting")
       => \A m \in Handles :
            Count(lastEmit'[m], UserLeft(h)) =
              (IF m # h /\ \E R \in RoomIds \ {h} : {h, m} \subseteq Members(R)
               THEN 1 ELSE 0)]_vars

\* C5: on join-room(R, name) by h with a non-empty R, h receives exactly one
\* existing-participants whose list is the members of R other than h (in
\* join order), every other member of R exactly one user-joined(h, name),
\* and nobody else (h included) a user-joined.
JoinRoomAnnounces ==
  (lastOp.op = "join-room" /\ lastOp.arg # Empty) =>
    LET h == lastOp.h
        R == lastOp.arg
    IN /\ h \in Members(R)
       /\ Len(lastEmit[h]) = 1
       /\ lastEmit[h][1].type = "existing-participants"
       /\ SetOf(lastEmit[h][1].participants) = Members(R) \ {h}
       /\ lastEmit[h][1].participants = SelectSeq(rooms[R], LAMBDA y : y # h)
       /\ \A m \in Handles \ {h} :
            lastEmit[m] = (IF m \in Members(R) THEN <<UserJoined(h, lastOp.name)>>
                           ELSE <<>>)

\* a third socket joined a room of two: it is told [A, B]
JoinRoomWitness ==
  /\ lastOp.op = "join-room"
  /\ lastOp.arg \in RoomNames
  /\ Len(rooms[lastOp.arg]) = 3
  /\ rooms[lastOp.arg][3] = lastOp.h
  /\ Len(lastEmit[lastOp.h][1].participants) = 2

\* C6: an offer, answer or ice-candidate of s with target t and a present
\* payload reaches exactly the connection whose id is t, as the same event
\* with from = s and the payload unchanged, and no other connection.
RelayReachesOnlyTarget ==
  (lastOp.op \in RelayTypes /\ lastOp.arg # Empty /\ lastOp.payload # <<>>) =>
    \A m \in Handles :
      lastEmit[m] = (IF m = lastOp.arg /\ m \in connected
                     THEN <<Relayed(lastOp.op, lastOp.h, lastOp.payload)>>
                     ELSE <<>>)

\* C7: a relay whose target is the id of a socket that has disconnected is
\* delivered to nobody.
RelayToAbsentTargetDropped ==
  (lastOp.op \in RelayTypes /\ lastOp.arg \in used \ connected) => lastEmit = NoEmit

\* C8: a chat-message of h for room R reaches every member of R other than h
\* and never h itself.
ChatNotEchoed ==
  (lastOp.op = "chat-message" /\ lastOp.arg # Empty
     /\ \E i \in 1..Len(lastOp.payload) : lastOp.payload[i] # " ") =>
    /\ lastEmit[lastOp.h] = <<>>
    /\ \A m \in Members(lastOp.arg) \ {lastOp.h} : Len(lastEmit[m]) = 1

\* C9: a chat-message whose text is empty, missing or only whitespace is
\* delivered to nobody and leaves the server state as it was.
BlankChatDropped ==
  [][(lastOp'.op = "chat-message"
        /\ \A i \in 1..Len(lastOp'.payload) : lastOp'.payload[i] = " ")
     => /\ lastEmit' = NoEmit
        /\ UNCHANGED <<connected, used, rooms, joined>>]_vars

\* a whitespace text was sent to a room that has two members
BlankChatWitness ==
  /\ lastOp.op = "chat-message"
  /\ lastOp.payload = <<" ">>
  /\ lastOp.arg \in RoomNames
  /\ Len(rooms[lastOp.arg]) >= 2
  /\ lastOp.h \in Members(lastOp.arg)

\* C10: an offer the server relays to h from a member s of a room is relayed
\* only after s has been sent user-joined(h) or an existing-participants
\* list that contains h.
OfferAfterAnnouncement ==
  [][\A h \in Handles :
       \A i \in (Len(inbox[h]) + 1)..Len(inbox'[h]) :
         LET e == inbox'[h][i]
         IN (e.type = "offer" /\ \E R \in RoomNames : e.id \in Members(R))
            => h \in told[e.id]]_vars

\* the earlier member of the room has offered to the newcomer it was told of
OfferAfterUserJoined ==
  \E h \in Handles :
    /\ Len(rooms["r1"]) = 2
    /\ rooms["r1"][2] = h
    /\ \E i \in 1..Len(inbox[h]) :
         /\ inbox[h][i].type = "offer"
         /\ inbox[h][i].id = rooms["r1"][1]
         /\ h \in told[inbox[h][i].id]

\* C15: when the transport of a component connects again, the component
\* holds no peer connection, tracked remote id or remote description from
\* before, and it has issued exactly one join-room for the new socket.
ReconnectStartsFromScratch ==
  [][\A c \in TwoParty :
       (cl[c].sock = Empty /\ cl'[c].sock # Empty) =>
         /\ ~cl'[c].peerRef
         /\ cl'[c].remoteSocketId = Empty
         /\ ~cl'[c].remoteDesc
         /\ Len(SelectSeq(outbox'[c], LAMBDA m : m.type = "join-room")) = 1]_vars

\* C11: with A in the room before B, media acquired and every message
\* delivered, the negotiation ends with both components connected: once
\* nothing is left to happen, isConnected is true on both sides.
CallConnects ==
  (~ENABLED NextCall) => \A c \in TwoParty : cl[c].isConnected

\* component c receives the event at the head of its inbox in this step
Receives(c, type) ==
  LET h == cl[c].sock
  IN /\ h # Empty
     /\ inbox[h] # <<>>
     /\ Head(inbox[h]).type = type
     /\ inbox'[h] = Tail(inbox[h])
     /\ cl'[c] = OnEvent(cl[c], Head(inbox[h]))

\* the handlers of c that wait in addIceCandidate with pc
CandidatesAt(s, pcs) ==
  BagCardinality([t \in {u \in BagToSet(s.tasks) :
                           u.kind = "handleRemoteCandidate" /\ u.pc \in pcs}
                  |-> CopiesIn(t, s.tasks)])

\* C12: no received ice-candidate is lost: when one is received it is handed
\* to the peer connection to be added once the remote description is set
\* (the component keeps no queue, so there is nowhere else for it to go).
CandidateKept ==
  [][\A c \in TwoParty :
       Receives(c, "ice-candidate") =>
         CandidatesAt(cl'[c], {"addIceCandidate", "addIceCandidate resolves"})
           > CandidatesAt(cl[c], {"addIceCandidate", "addIceCandidate resolves"})]_vars

UserLeftTearsDown ==
  [][\A c \in TwoParty :
       ( /\ Receives(c, "user-left")
         /\ Head(inbox[cl[c].sock]).id = cl[c].remoteSocketId ) =>
           /\ ~cl'[c].peerRef
           /\ cl'[c].remoteSocketId = Empty
           /\ ~cl'[c].remoteStream
           /\ ~cl'[c].isConnected
           /\ ~cl'[c].isRecording
           /\ ~cl'[c].recorder]_vars

\* user-left of the tracked handle is next in a component that is connected,
\* shows the remote stream and records
UserLeftWhileRecording ==
  \E c \in TwoParty :
    /\ cl[c].sock # Empty
    /\ inbox[cl[c].sock] # <<>>
    /\ Head(inbox[cl[c].sock]).type = "user-left"
    /\ Head(inbox[cl[c].sock]).id = cl[c].remoteSocketId
    /\ BagCardinality(cl[c].tasks) < MaxTasks
    /\ cl[c].peerRef /\ cl[c].isConnected /\ cl[c].remoteStream
    /\ cl[c].recorder /\ cl[c].isRecording

\* the awaits of the offer / answer exchange
NegotiationCalls ==
  {"createOffer", "createAnswer", "setLocalDescription", "setRemoteDescription"}

\* C16: when createOffer, createAnswer, setLocalDescription or
\* setRemoteDescription rejects, the component is back to waiting for a peer:
\* it holds no peer connection and tracks no remote handle.
NegotiationFailureResets ==
  [][\A c \in TwoParty :
       \A t \in BagToSet(cl[c].tasks), rollback \in BOOLEAN :
         ( /\ t.pc \in NegotiationCalls
           /\ Holds(cl[c], t)
           /\ Rejects(cl[c], t, rollback)
           /\ cl'[c] = AfterPeerCall(cl[c], t, rollback).s ) =>
             /\ ~cl'[c].peerRef
             /\ cl'[c].remoteSocketId = Empty]_vars

\* getUserMedia of task t of component c rejects in this step
AcquisitionFails(c, t) ==
  /\ t \in BagToSet(cl[c].tasks)
  /\ t.pc = "getUserMedia"
  /\ mediaFailures' = mediaFailures + 1
  /\ cl'[c] = AfterGetUserMedia(cl[c], t, FALSE)

\* C17: when getUserMedia fails, the error message is set and the media state
\* is as before: the held stream and its tracks are kept, isVideoOn and
\* isAudioOn keep their values.
AcquisitionFailureKeepsState ==
  [][\A c \in TwoParty :
       \A t \in BagToSet(cl[c].tasks) :
         AcquisitionFails(c, t) =>
           /\ cl'[c].cameraError
           /\ cl'[c].localStream = cl[c].localStream
           /\ cl'[c].videoTrack = cl[c].videoTrack
           /\ cl'[c].audioTrack = cl[c].audioTrack
           /\ cl'[c].isVideoOn = cl[c].isVideoOn
           /\ cl'[c].isAudioOn = cl[c].isAudioOn]_vars

\* a step of toggleVideo of component c: the press of the button, or the
\* settling of the startMedia it waited for
ToggleVideoStep(c) ==
  \/ /\ BagCardinality(cl[c].tasks) < MaxTasks
     /\ cl'[c] = ToggleVideoPressed(cl[c])
     /\ cl'[c] # cl[c]
  \/ \E t \in BagToSet(cl[c].tasks), ok \in BOOLEAN :
       /\ t.kind = "toggleVideo"
       /\ cl'[c] = AfterGetUserMedia(cl[c], t, ok)
       /\ mediaFailures' = (IF ok THEN mediaFailures ELSE mediaFailures + 1)

\* C18: with no peer connection, no step of a video toggle (off, then on
\* again, with or without a held stream, whether or not getUserMedia
\* succeeds) changes the audio state: isAudioOn and the enabled flag of the
\* held audio tracks stay as they were.
ToggleVideoKeepsAudio ==
  [][\A c \in TwoParty :
       (ToggleVideoStep(c) /\ ~cl[c].peerRef) =>
         /\ cl'[c].isAudioOn = cl[c].isAudioOn
         /\ (cl[c].audioTrack # "none" => cl'[c].audioTrack = cl[c].audioTrack)]_vars

\* C19: stopRecording stops no live track of the call: the tracks of the
\* remote stream and of the local stream that were live stay live.
StopRecordingKeepsCallTracks ==
  [][\A c \in TwoParty :
       (cl[c].recorder /\ cl'[c] = StopRecording(cl[c])) =>
         /\ cl'[c].remoteLive = cl[c].remoteLive
         /\ cl'[c].localStream = cl[c].localStream
         /\ cl'[c].videoTrack = cl[c].videoTrack
         /\ cl'[c].audioTrack = cl[c].audioTrack]_vars

\* C20: when MediaRecorder rejects the encoding, startRecording with a remote
\* stream present ends with isRecording false and no recorder, and the call is
\* as before: no remote or local track is stopped, the peer connection and
\* the tracked remote handle are unchanged.
UnsupportedRecordingKeepsCall ==
  [][\A c \in TwoParty :
       ( /\ cl[c].remoteStream
         /\ ~cl[c].isRecording
         /\ cl'[c] = StartRecording(cl[c], FALSE) ) =>
           /\ ~cl'[c].isRecording
           /\ ~cl'[c].recorder
           /\ cl'[c].remoteLive = cl[c].remoteLive
           /\ cl'[c].localStream = cl[c].localStream
           /\ cl'[c].videoTrack = cl[c].videoTrack
           /\ cl'[c].audioTrack = cl[c].audioTrack
           /\ cl'[c].peerRef = cl[c].peerRef
           /\ cl'[c].remoteSocketId = cl[c].remoteSocketId]_vars

\* C21: startRecording with no remote stream starts nothing: no recorder, no
\* recording timer, isRecording false, recordingDuration as before.
NoRecordingWithoutRemoteStream ==
  \A c \in TwoParty, supported \in BOOLEAN :
    ~cl[c].remoteStream =>
      LET after == StartRecording(cl[c], supported)
      IN /\ ~after.recorder /\ after.recording = 0
         /\ after.timers = 0
         /\ ~after.isRecording
         /\ after.duration = cl[c].duration

\* the call is negotiated, the record button can be pressed and the remote
\* stream has not arrived
RecordBeforeRemoteStream ==
  \E c \in Recordists :
    /\ cl[c].mounted /\ cl[c].peerRef /\ cl[c].remoteDesc
    /\ ~cl[c].remoteStream
    /\ ~cl[c].isRecording /\ cl[c].cycle < MaxCycles

\* C22: startRecording during a recording is a no-op: there is at most one
\* recorder and one recording timer, and the chunks and the duration of the
\* recording in progress are left alone.
OneRecordingAtATime ==
  \A c \in TwoParty :
    /\ cl[c].recording <= 1
    /\ cl[c].timers <= 1
    /\ cl[c].isRecording =>
         \A supported \in BOOLEAN : StartRecording(cl[c], supported) = cl[c]

\* a recording in progress has chunks and has counted seconds
RecordingUnderWay ==
  \E c \in Recordists :
    /\ cl[c].isRecording /\ cl[c].recorder
    /\ cl[c].chunks # <<>>
    /\ cl[c].duration > 0

\* C23: every artifact handed to onRecordingReady holds the chunks and the
\* seconds of its own recording, one artifact per recording, also when the
\* next recording starts before the stop event of the last is handled.
ArtifactOfOwnCycle ==
  \A c \in TwoParty :
    /\ \A i \in 1..Len(cl[c].artifacts) :
         LET a == cl[c].artifacts[i]
         IN /\ a.chunks = [j \in 1..a.made |-> a.cycle]
            /\ a.duration = a.secs
    /\ \A i, j \in 1..Len(cl[c].artifacts) :
         i # j => cl[c].artifacts[i].cycle # cl[c].artifacts[j].cycle


\* the runs of handleEndCall that are suspended in component s
EndCallsWaiting(s) ==
  BagCardinality([t \in {u \in BagToSet(s.tasks) : u.kind = "handleEndCall"} |->
                    CopiesIn(t, s.tasks)])

\* C24: a run of handleEndCall ends by invoking onEndCall, and by then the
\* recording is stopped, the screen share is off and its track stopped, the
\* transport is disconnected, the peer connection closed and forgotten, and
\* the local tracks are stopped and the stream released.
EndCallTearsDown ==
  [][\A c \in TwoParty :
       (EndCallsWaiting(cl'[c]) < EndCallsWaiting(cl[c])
          \/ (cl[c].mounted /\ ~cl'[c].mounted))
       => /\ cl[c].mounted /\ ~cl'[c].mounted
          /\ ~cl'[c].recorder /\ ~cl'[c].isRecording
          /\ ~cl'[c].isScreenSharing /\ cl'[c].screenTrack = "none"
          /\ cl'[c].sock = Empty
          /\ ~cl'[c].peerRef /\ cl'[c].remoteSocketId = Empty
          /\ ~cl'[c].localStream
          /\ cl'[c].videoTrack = "none" /\ cl'[c].audioTrack = "none"]_vars

\* the runs of the onended handler that are suspended in component s
EndedHandlersWaiting(s) ==
  BagCardinality([t \in {u \in BagToSet(s.tasks) : u.kind = "onended"} |->
                    CopiesIn(t, s.tasks)])

\* C25: when the display track ends while isScreenSharing is on, the onended
\* handler leaves the component reverted: when it has ended, the video sender
\* of the connection, if there is one, carries the camera track,
\* screenTrackRef is cleared and isScreenSharing is off.
EndedScreenTrackReverts ==
  [][\A c \in Sharers :
       (\/ EndedHandlersWaiting(cl'[c]) < EndedHandlersWaiting(cl[c])
        \/ /\ cl[c].screenTrack = "watched" /\ cl[c].isScreenSharing
           /\ cl'[c] = StopScreenShare(cl[c], "onended")
           /\ EndedHandlersWaiting(cl'[c]) = EndedHandlersWaiting(cl[c]))
       => /\ cl'[c].screenTrack = "none"
          /\ ~cl'[c].isScreenSharing
          /\ cl'[c].sender \in {"none", "camera"}]_vars

\* a handler that starts or stops the screen share is suspended in s
ScreenShareChanging(s) ==
  \E t \in BagToSet(s.tasks) :
    t.kind \in {"toggleScreenShare", "startScreenShare", "stopScreenShare",
                "onended", "toggleVideo", "handleEndCall"}

\* C29: in every state in which no handler is in the middle of starting or
\* stopping the screen share, isScreenSharing is on exactly when a live
\* display track is held, and a video sender of the connection carries the
\* display track while isScreenSharing is on.
ScreenShareConsistent ==
  \A c \in Sharers :
    ~ScreenShareChanging(cl[c]) =>
      /\ cl[c].isScreenSharing <=> cl[c].screenTrack \in {"live", "watched"}
      /\ (cl[c].isScreenSharing /\ cl[c].sender # "none") => cl[c].sender = "screen"

\* C26: a user-left for a handle other than the tracked one leaves the
\* session of the component as it was: the peer connection and its state, the
\* tracked handle, the remote stream, isConnected and a recording in progress.
UserLeftOfOtherKeepsSession ==
  [][\A c \in TwoParty :
       ( /\ Receives(c, "user-left")
         /\ Head(inbox[cl[c].sock]).id # cl[c].remoteSocketId ) =>
           /\ cl'[c].peerRef = cl[c].peerRef
           /\ cl'[c].sig = cl[c].sig
           /\ cl'[c].remoteDesc = cl[c].remoteDesc
           /\ cl'[c].localDesc = cl[c].localDesc
           /\ cl'[c].remoteSocketId = cl[c].remoteSocketId
           /\ cl'[c].remoteStream = cl[c].remoteStream
           /\ cl'[c].isConnected = cl[c].isConnected
           /\ cl'[c].recorder = cl[c].recorder
           /\ cl'[c].isRecording = cl[c].isRecording]_vars

\* C27: while two parties track each other, an event that comes from a third
\* socket (user-joined, offer, answer or ice-candidate) leaves the party that
\* receives it tracking the other party, and starts no operation on its peer
\* connection.
ThirdPartyKeepsSession ==
  [][\A a, b \in TwoParty :
       ( /\ a # b
         /\ Tracking(a, b)
         /\ inbox[cl[a].sock] # <<>>
         /\ Head(inbox[cl[a].sock]).type \in {"user-joined", "offer", "answer", "ice-candidate"}
         /\ Head(inbox[cl[a].sock]).id \notin {cl[a].sock, cl[b].sock}
         /\ inbox'[cl[a].sock] = Tail(inbox[cl[a].sock])
         /\ cl'[a] = OnEvent(cl[a], Head(inbox[cl[a].sock])) ) =>
           /\ cl'[a].remoteSocketId = cl[b].sock
           /\ cl'[a].tasks = cl[a].tasks
           /\ cl'[a].peerRef = cl[a].peerRef
           /\ cl'[a].sig = cl[a].sig]_vars

\* the suspended handler t of component c goes on in this step
Resumes(c, t) ==
  IF t.pc = "getUserMedia"
  THEN cl'[c] = AfterGetUserMedia(cl[c], t, TRUE)
  ELSE \E rollback \in BOOLEAN : cl'[c] = AfterPeerCall(cl[c], t, rollback).s

\* C28: an initiateOffer or handleRemoteOffer that was suspended when the
\* call was ended does not undo the teardown when it goes on: the component
\* still has no peer connection, tracks no remote handle, has emitted nothing
\* and holds no live local stream.
TeardownNotUndone ==
  [][\A c \in TwoParty :
       \A t \in BagToSet(cl[c].tasks) :
         ( /\ ~cl[c].mounted
           /\ t.kind \in {"initiateOffer", "handleRemoteOffer"}
           /\ Resumes(c, t) ) =>
             /\ ~cl'[c].peerRef
             /\ cl'[c].remoteSocketId = Empty
             /\ outbox'[c] = outbox[c]
             /\ ~cl'[c].localStream]_vars

\* C30: a chat message with something in it is logged exactly once by its
\* sender (when it is sent, and not again when the server echoes it) and
\* exactly once by every other member that receives it, whatever the display
\* names of the members are.
ChatLoggedOnce ==
  [][\A c \in TwoParty :
       /\ ( /\ Len(outbox'[c]) = Len(outbox[c]) + 1
            /\ outbox'[c][Len(outbox'[c])].type = "chat-message" ) =>
            cl'[c].chatMessages =
              Append(cl[c].chatMessages,
                     [sender |-> "You", message |-> outbox'[c][Len(outbox'[c])].payload])
       /\ Receives(c, "chat-message") =>
            LET e == Head(inbox[cl[c].sock])
            IN cl'[c].chatMessages =
                 (IF e.payload = <<c>> THEN cl[c].chatMessages
                  ELSE Append(cl[c].chatMessages,
                              [sender |-> e.name, message |-> e.payload]))]_vars

=========================================================================
